---- MODULE Spec2Model ----
(***************************************************************************)
(* AudiGIF (src/script.js): the AGIFPlayer playback scheduler, the asset   *)
(* loading of AGIFDecoder.decode / AGIFPlayer.loadAndPlay, and the parse   *)
(* of the container bytes by AGIFDecoder.decode.                           *)
(*                                                                         *)
(* Frame indices and clip indices are 0-based, as in the source.           *)
(* null (animationId) and undefined (decoded, frameDuration) are 0; timer  *)
(* and animation-frame handles are positive integers.                      *)
(***************************************************************************)
EXTENDS Integers, Sequences, FiniteSets, TLC

(***************************************************************************)
(* Bounds of the model.                                                    *)
(***************************************************************************)
\* loadAndPlay() calls made on the player in one behaviour
MaxLoads == 2
\* setTimeout handles handed out in one behaviour (caps the number of ticks)
MaxTimerId == 3
\* executions of animate() the history keeps (the latest ones)
MaxLog == 3
\* length of the arbitrary byte sequences handed to decode
MaxGarbage == 4
\* bytes appended to a container handed to decode
MaxExtra == 2

(***************************************************************************)
(* The .agif files the user can hand to loadAndPlay.  Each entry is what   *)
(* the structural part of AGIFDecoder.decode (lines 3-68) extracts from a  *)
(* well formed file.                                                       *)
(***************************************************************************)
Trig(f, a) == [frame |-> f, audio |-> a]

Container(nf, nc, fr, trg, lp) ==
    [numFrames |-> nf, numAudioClips |-> nc, frameRate |-> fr,
     triggers |-> trg, loop |-> lp]

Library ==
    << Container(3, 2, 20, <<Trig(1, 0), Trig(1, 1), Trig(2, 2), Trig(1, 0)>>, TRUE),
       Container(2, 1, 10, <<Trig(0, 0)>>, FALSE),
       Container(0, 0, 25, <<>>, TRUE) >>

Files == 1..Len(Library)

VARIABLES
    decoded,        \* this.decoded: index into Library, 0 while unset
    isPlaying,      \* this.isPlaying
    currentFrame,   \* this.currentFrame
    animationId,    \* this.animationId: handle of the last setTimeout, 0 = null
    frameDuration,  \* this.frameDuration in ms, 0 while unset
    pending,        \* callbacks of this player the browser still holds
    nextTimerId,    \* next handle setTimeout returns
    nextRafId,      \* next handle requestAnimationFrame returns
    loads,          \* the loadAndPlay() calls, in call order
    ticks,          \* history: the executions of animate() past its two guards
    pausedFrame,    \* history: currentFrame at the last pause(), -1 once playing again
    buffer,         \* the bytes handed to AGIFDecoder.decode
    result,         \* what lines 3-68 of AGIFDecoder.decode made of buffer
    audioBuffer,    \* the AudioBuffer handed to audioBufferToWav
    wavArrayBuffer, \* the bytes audioBufferToWav returned, <<>> before the call
    images,         \* the global images: the image files last uploaded
    audioFiles,     \* the global audioFiles: the audio files last uploaded
    triggers,       \* the global triggers: the list the last click collected
    frameRate,      \* the global frameRate
    encodes,        \* the createAudiGIF() calls suspended on an await, in call order
    produced        \* the container of the createAudiGIF() call that returned last

vars == <<decoded, isPlaying, currentFrame, animationId, frameDuration, pending,
          nextTimerId, nextRafId, loads, ticks, pausedFrame, buffer, result,
          audioBuffer, wavArrayBuffer, images, audioFiles, triggers, frameRate,
          encodes, produced>>

decodeVars == <<buffer, result>>

wavVars == <<audioBuffer, wavArrayBuffer>>

authorVars == <<images, audioFiles, triggers, frameRate, encodes, produced>>

(***************************************************************************)
(* AGIFPlayer.animate, lines 160-195.                                      *)
(***************************************************************************)
\* frames[this.currentFrame] is a decoded Image of container d
frameExists(d, cf) == cf \in 0..(d.numFrames - 1)

\* line 180, without the audioBuffers[trigger.audio] test
triggerFiresAnyClip(d, cf, t) == t.frame = cf

\* line 180: trigger.frame === this.currentFrame && audioBuffers[trigger.audio]
triggerFires(d, cf, t) ==
    t.frame = cf /\ t.audio \in 0..(d.numAudioClips - 1)

\* lines 179-186: the clips started, in trigger order, one instance per trigger
dispatch(d, cf) ==
    LET fires(t) == triggerFires(d, cf, t)
        clipOf(s) == [i \in 1..Len(s) |-> s[i].audio]
    IN  clipOf(SelectSeq(d.triggers, fires))

\* line 189, made to stop on the last frame when the loop flag is false
nextFrameHonoursLoop(d, cf) ==
    IF d.loop \/ cf + 1 < d.numFrames THEN (cf + 1) % d.numFrames ELSE cf

\* line 189
nextFrame(d, cf) == (cf + 1) % d.numFrames

\* line 143, with the frame rate taken for the duration
frameDurationIsRate(d) == d.frameRate

\* line 143, AGIFPlayer.setupCanvas (the frame rates of Library divide 1000)
frameDurationOf(d) == 1000 \div d.frameRate

\* animate() without the isPlaying test of line 161
animateOutcomeUnguarded(playing, d, cf) ==
    IF d.numFrames = 0 THEN "noFrames"
    ELSE IF ~frameExists(d, cf) THEN "throws"
    ELSE "tick"

\* how far one call of animate() gets
animateOutcome(playing, d, cf) ==
    IF ~playing THEN "notPlaying"            \* line 161
    ELSE IF d.numFrames = 0 THEN "noFrames"  \* line 164
    ELSE IF ~frameExists(d, cf) THEN "throws" \* line 170: drawImage(undefined) is a TypeError
    ELSE "tick"

\* history: the record of an execution of animate() that ran to its end:
\* frame rendered, clips started, currentFrame set, timeout set with its delay
tickRecord(c, cf, dur, via, stale) ==
    [kind |-> "tick", file |-> c, frame |-> cf, started |-> dispatch(Library[c], cf),
     next |-> nextFrame(Library[c], cf), delay |-> dur, timer |-> nextTimerId,
     via |-> via, stale |-> stale]

\* history: the record of an execution of animate() that threw at line 170
throwRecord(c, cf, via, stale) ==
    [kind |-> "throws", file |-> c, frame |-> cf, started |-> <<>>,
     next |-> cf, delay |-> 0, timer |-> 0, via |-> via, stale |-> stale]

\* history: the log with one more entry, the oldest dropped beyond MaxLog
logged(log, r) ==
    LET t == Append(log, r) IN IF Len(t) > MaxLog THEN Tail(t) ELSE t

timeoutCb(id) == [kind |-> "timeout", id |-> id, stale |-> FALSE]

\* the model stops handing out timer handles at MaxTimerId
CanSchedule == nextTimerId <= MaxTimerId

\* animate() called with this.isPlaying = playing, this.decoded = c,
\* this.frameDuration = dur, while the browser holds the callbacks pend
animate(playing, c, dur, pend, via, stale) ==
    LET out == animateOutcome(playing, Library[c], currentFrame) IN
    /\ currentFrame' = IF out = "tick" THEN nextFrame(Library[c], currentFrame) ELSE currentFrame
    /\ animationId' = IF out = "tick" THEN nextTimerId ELSE animationId
    /\ nextTimerId' = IF out = "tick" THEN nextTimerId + 1 ELSE nextTimerId
    /\ pending' = IF out = "tick" THEN pend \cup {timeoutCb(nextTimerId)} ELSE pend
    /\ ticks' = CASE out = "tick" -> logged(ticks, tickRecord(c, currentFrame, dur, via, stale))
                  [] out = "throws" -> logged(ticks, throwRecord(c, currentFrame, via, stale))
                  [] OTHER -> ticks

\* history: pausedFrame is kept only while the player stays paused
forgetPause == pausedFrame' = IF isPlaying' THEN -1 ELSE pausedFrame

(***************************************************************************)
(* AGIFPlayer.play, lines 146-150.                                         *)
(***************************************************************************)
\* line 147, without the isPlaying test
playIsNoopUnlessLoaded == decoded = 0

\* line 147: if (this.isPlaying || !this.decoded) return
playIsNoop == isPlaying \/ decoded = 0

play ==
    /\ CanSchedule
    /\ IF playIsNoop
       THEN /\ UNCHANGED <<isPlaying, currentFrame, animationId, pending, nextTimerId, ticks>>
       ELSE /\ isPlaying' = TRUE
            /\ animate(TRUE, decoded, frameDuration, pending, "play", FALSE)
    /\ forgetPause
    /\ UNCHANGED <<decoded, frameDuration, nextRafId, loads>>
    /\ UNCHANGED <<decodeVars, wavVars, authorVars>>

(***************************************************************************)
(* AGIFPlayer.pause, lines 152-158.  animationId holds a setTimeout        *)
(* handle and is given to cancelAnimationFrame, which removes the          *)
(* animation-frame callback with that handle, if there is one; the timeout *)
(* itself is not cleared.                                                  *)
(***************************************************************************)
cancelAnimationFrame(pend, id) ==
    {cb \in pend : ~(cb.kind = "raf" /\ cb.id = id)}

\* history: the callbacks that survive a pause() were pending at a pause()
markStale(pend) == {[cb EXCEPT !.stale = TRUE] : cb \in pend}

pause ==
    /\ isPlaying' = FALSE
    /\ IF animationId # 0
       THEN /\ pending' = markStale(cancelAnimationFrame(pending, animationId))
            /\ animationId' = 0
       ELSE /\ pending' = markStale(pending)
            /\ animationId' = animationId
    /\ pausedFrame' = currentFrame
    /\ UNCHANGED <<decoded, currentFrame, frameDuration, nextTimerId, nextRafId, loads, ticks>>
    /\ UNCHANGED <<decodeVars, wavVars, authorVars>>

(***************************************************************************)
(* The callbacks of lines 192-194.                                         *)
(***************************************************************************)
\* the setTimeout callback: requestAnimationFrame(() => this.animate())
timeoutFires ==
    \E cb \in pending :
        /\ cb.kind = "timeout"
        /\ pending' = (pending \ {cb}) \cup {[kind |-> "raf", id |-> nextRafId, stale |-> cb.stale]}
        /\ nextRafId' = nextRafId + 1
        /\ UNCHANGED <<decoded, isPlaying, currentFrame, animationId, frameDuration,
                       nextTimerId, loads, ticks, pausedFrame>>
        /\ UNCHANGED <<decodeVars, wavVars, authorVars>>

\* the animation-frame callback: this.animate()
rafFires ==
    \E cb \in pending :
        /\ cb.kind = "raf"
        /\ CanSchedule
        /\ animate(isPlaying, decoded, frameDuration, pending \ {cb}, "timer", cb.stale)
        /\ UNCHANGED <<decoded, isPlaying, frameDuration, nextRafId, loads, pausedFrame>>
        /\ UNCHANGED <<decodeVars, wavVars, authorVars>>

(***************************************************************************)
(* AGIFPlayer.loadAndPlay, lines 111-137, with AGIFDecoder.decode's asset  *)
(* loading, lines 70-98.  Promise.all counts the promises still to         *)
(* resolve: a call keeps the number of frames and of clips resolved so far *)
(* (the assets resolve in any order; the first one to reject fails it).    *)
(***************************************************************************)
newLoad(c) == [file |-> c, phase |-> "buffer", frames |-> 0, clips |-> 0, error |-> "none"]

\* a Promise.all that resolves with the first promise to resolve
anyResolved(k, n) == k >= 1

\* Promise.all over n promises resolves once all n have resolved
allResolved(k, n) == k = n

\* what follows the image loads of file c: the audio decodes, or the end of decode()
afterFrames(c) == IF Library[c].numAudioClips > 0 THEN "audio" ELSE "decoded"

\* what follows the parse of file c (lines 3-68, which a Library file passes)
afterParse(c) == IF Library[c].numFrames > 0 THEN "frames" ELSE afterFrames(c)

\* lines 130-132 (and the catch of 133-136): the continuation of
\* `await AGIFDecoder.decode(buffer)` for call l once the decode resolved;
\* ld is the call's record at that point
finishLoad(l, ld) ==
    LET c == ld.file
        throws == ~isPlaying /\ animateOutcome(TRUE, Library[c], currentFrame) = "throws"
    IN  /\ decoded' = c
        /\ frameDuration' = frameDurationOf(Library[c])
        /\ IF isPlaying
           THEN UNCHANGED <<isPlaying, currentFrame, animationId, pending, nextTimerId, ticks>>
           ELSE /\ isPlaying' = TRUE
                /\ animate(TRUE, c, frameDurationOf(Library[c]), pending, "load", FALSE)
        /\ loads' = [loads EXCEPT ![l] = [ld EXCEPT !.phase = IF throws THEN "failed" ELSE "loaded",
                                                    !.error = IF throws THEN "TypeError" ELSE "none"]]

\* call l moves on to phase ph with record ld; reaching "decoded" runs the
\* continuation in the same task (promise reactions are microtasks)
advanceLoad(l, ld, ph) ==
    IF ph = "decoded"
    THEN finishLoad(l, ld)
    ELSE /\ loads' = [loads EXCEPT ![l] = [ld EXCEPT !.phase = ph]]
         /\ UNCHANGED <<decoded, isPlaying, currentFrame, animationId, frameDuration,
                        pending, nextTimerId, ticks>>

\* a promise of call l rejected: Promise.all rejects, decode() rejects,
\* loadAndPlay logs and rethrows (lines 133-136)
failLoad(l) ==
    /\ loads' = [loads EXCEPT ![l].phase = "failed", ![l].error = "AssetDecodeError"]
    /\ UNCHANGED <<decoded, isPlaying, currentFrame, animationId, frameDuration,
                   pending, nextTimerId, ticks>>

\* the call itself, up to its first await
loadAndPlay ==
    \E c \in Files :
        /\ Len(loads) < MaxLoads
        /\ loads' = Append(loads, newLoad(c))
        /\ UNCHANGED <<decoded, isPlaying, currentFrame, animationId, frameDuration,
                       pending, nextTimerId, nextRafId, ticks, pausedFrame>>
        /\ UNCHANGED <<decodeVars, wavVars, authorVars>>

\* the buffer is there: decode() parses it and starts the image loads
bufferReady ==
    \E l \in 1..Len(loads) :
        /\ loads[l].phase = "buffer"
        /\ CanSchedule
        /\ UNCHANGED nextRafId
        /\ advanceLoad(l, loads[l], afterParse(loads[l].file))
        /\ forgetPause
        /\ UNCHANGED <<decodeVars, wavVars, authorVars>>

\* img.onload (ok) or img.onerror (~ok) of a frame of call l not yet
\* resolved (lines 71-80); the host decides which
frameLoaded ==
    \E l \in 1..Len(loads) : \E ok \in BOOLEAN :
        LET c == loads[l].file
            ld == [loads[l] EXCEPT !.frames = @ + 1]
        IN  /\ loads[l].phase = "frames"
            /\ CanSchedule
            /\ UNCHANGED nextRafId
            /\ IF ok
               THEN IF allResolved(ld.frames, Library[c].numFrames)
                    THEN advanceLoad(l, ld, afterFrames(c))
                    ELSE advanceLoad(l, ld, "frames")
               ELSE failLoad(l)
            /\ forgetPause
            /\ UNCHANGED <<decodeVars, wavVars, authorVars>>

\* decodeAudioData of a clip of call l not yet resolved resolves (ok) or
\* rejects (~ok) (lines 84-89); the host decides which
audioDecoded ==
    \E l \in 1..Len(loads) : \E ok \in BOOLEAN :
        LET c == loads[l].file
            ld == [loads[l] EXCEPT !.clips = @ + 1]
        IN  /\ loads[l].phase = "audio"
            /\ CanSchedule
            /\ UNCHANGED nextRafId
            /\ IF ok
               THEN IF allResolved(ld.clips, Library[c].numAudioClips)
                    THEN advanceLoad(l, ld, "decoded")
                    ELSE advanceLoad(l, ld, "audio")
               ELSE failLoad(l)
            /\ forgetPause
            /\ UNCHANGED <<decodeVars, wavVars, authorVars>>

(***************************************************************************)
(* AGIFDecoder.decode, lines 3-68: the synchronous parse of the buffer.    *)
(* A buffer is a sequence of bytes 0..255, a text a sequence of code       *)
(* points; buffer offsets are 0-based as in the source, sequences 1-based. *)
(***************************************************************************)
\* the text "AGIF" (lines 10, 345)
AGIF ==
    <<65, 71, 73, 70>>
\* the text "data:image/png;base64," (line 38)
DataUrlPrefix ==
    <<100, 97, 116, 97, 58, 105, 109, 97, 103, 101, 47, 112, 110, 103, 59,
    98, 97, 115, 101, 54, 52, 44>>
\* the property names and values lines 24, 32, 44 look at
K_version ==
    <<118, 101, 114, 115, 105, 111, 110>>
\* "audioFormat"
K_audioFormat ==
    <<97, 117, 100, 105, 111, 70, 111, 114, 109, 97, 116>>
\* "numFrames"
K_numFrames ==
    <<110, 117, 109, 70, 114, 97, 109, 101, 115>>
\* "numAudioClips"
K_numAudioClips ==
    <<110, 117, 109, 65, 117, 100, 105, 111, 67, 108, 105, 112, 115>>
\* "1.0"
V_1_0 ==
    <<49, 46, 48>>
\* "wav"
V_wav ==
    <<119, 97, 118>>

RangeError == "RangeError"

\* line 9 / 18 / 36 / 47 / 56: new Uint8Array(arrayBuffer, off, len) throws a
\* RangeError unless off + len <= arrayBuffer.byteLength; line 15 / 33 / 45 /
\* 53: view.getUint32(off, true) throws one unless off + 4 <= byteLength
inBounds(b, off, len) == off + len <= Len(b)

\* the bytes new Uint8Array(arrayBuffer, off, len) views
Uint8Array(b, off, len) == SubSeq(b, off + 1, off + len)

\* a length prefix that is not read: every section is taken for empty
getUint32Unread(b, off) == 0

\* view.getUint32(off, true): little-endian
getUint32(b, off) ==
    b[off + 1] + 256 * b[off + 2] + 65536 * b[off + 3] + 16777216 * b[off + 4]

(***************************************************************************)
(* new TextDecoder().decode(bytes): UTF-8, not fatal (an ill-formed        *)
(* sequence becomes U+FFFD, one per maximal subpart), a leading byte order *)
(* mark EF BB BF is dropped.                                               *)
(***************************************************************************)
\* continuation bytes the lead byte b0 asks for (0: ASCII, -1: not a lead)
utf8Needed(b0) ==
    IF b0 <= 127 THEN 0
    ELSE IF b0 \in 194..223 THEN 1
    ELSE IF b0 \in 224..239 THEN 2
    ELSE IF b0 \in 240..244 THEN 3
    ELSE -1

\* the values the k-th continuation byte after lead b0 may take
utf8Range(b0, k) ==
    IF k > 1 THEN 128..191
    ELSE IF b0 = 224 THEN 160..191
    ELSE IF b0 = 237 THEN 128..159
    ELSE IF b0 = 240 THEN 144..191
    ELSE IF b0 = 244 THEN 128..143
    ELSE 128..191

\* how many well-formed continuation bytes follow the lead at position i
utf8Good(b, i) ==
    LET n == utf8Needed(b[i])
        ok(k) == i + k <= Len(b) /\ b[i + k] \in utf8Range(b[i], k)
        runs == {j \in 0..n : \A k \in 1..j : ok(k)}
    IN  CHOOSE j \in runs : \A m \in runs : m <= j

\* the code point of the well-formed sequence at position i
utf8CodePoint(b, i) ==
    LET n == utf8Needed(b[i])
        c(k) == b[i + k] - 128
    IN  CASE n = 0 -> b[i]
          [] n = 1 -> (b[i] - 192) * 64 + c(1)
          [] n = 2 -> (b[i] - 224) * 4096 + c(1) * 64 + c(2)
          [] n = 3 -> (b[i] - 240) * 262144 + c(1) * 4096 + c(2) * 64 + c(3)

\* the text of the bytes from position i on: the ASCII bytes up to the
\* next byte above 127 stand for themselves, then one sequence is decoded
RECURSIVE utf8Decode(_, _)
utf8Decode(b, i) ==
    LET high == {k \in i..Len(b) : b[k] > 127} IN
    IF high = {} THEN SubSeq(b, i, Len(b))
    ELSE LET j == CHOOSE k \in high : \A m \in high : k <= m
             n == utf8Needed(b[j])
             g == IF n = -1 THEN 0 ELSE utf8Good(b, j)
         IN  SubSeq(b, i, j - 1)
               \o (IF g = n THEN <<utf8CodePoint(b, j)>> ELSE <<65533>>)
               \o utf8Decode(b, j + g + 1)

textDecoderDecode(b) ==
    IF Len(b) >= 3 /\ SubSeq(b, 1, 3) = <<239, 187, 191>>
    THEN utf8Decode(b, 4)
    ELSE utf8Decode(b, 1)

(***************************************************************************)
(* JSON.parse(text) (lines 20, 58).  A JSON value is a record [t, v]: t    *)
(* its type, v the number, the text of the string, the boolean, the        *)
(* sequence of [k, v] members of the object or of elements of the array.   *)
(* Modelled for the texts of Buffers: no escape sequence in a string, no   *)
(* fraction and no exponent in a number (either one is taken for a syntax  *)
(* error here).                                                            *)
(***************************************************************************)
Undefined == [t |-> "undefined", v |-> 0]
JNull == [t |-> "null", v |-> 0]
JNum(n) == [t |-> "num", v |-> n]
JStr(s) == [t |-> "str", v |-> s]
JBool(x) == [t |-> "bool", v |-> x]
JObj(ms) == [t |-> "obj", v |-> ms]
JArr(es) == [t |-> "arr", v |-> es]

\* a parse that stopped at position i of the text without a value
parseFail(i) == [ok |-> FALSE, v |-> Undefined, i |-> i]

\* a parse that read the value v and stands at position i
parseOk(v, i) == [ok |-> TRUE, v |-> v, i |-> i]

RECURSIVE skipWs(_, _)
skipWs(t, i) ==
    IF i <= Len(t) /\ t[i] \in {9, 10, 13, 32} THEN skipWs(t, i + 1) ELSE i

\* a string whose opening quote is at position i - 1
parseString(t, i) ==
    LET ends == {k \in i..Len(t) : t[k] = 34} IN
    IF ends = {} THEN parseFail(i)
    ELSE LET k == CHOOSE e \in ends : \A m \in ends : e <= m IN
         IF \E m \in i..(k - 1) : t[m] < 32 \/ t[m] = 92
         THEN parseFail(i)
         ELSE parseOk(JStr(SubSeq(t, i, k - 1)), k + 1)

RECURSIVE decimal(_)
decimal(ds) ==
    IF ds = <<>> THEN 0
    ELSE 10 * decimal(SubSeq(ds, 1, Len(ds) - 1)) + (ds[Len(ds)] - 48)

\* a number that starts at position i with a minus sign or a digit
parseNumber(t, i) ==
    LET neg == t[i] = 45
        s == IF neg THEN i + 1 ELSE i
        nonDigits == {k \in s..Len(t) : t[k] \notin 48..57} \cup {Len(t) + 1}
        run == CHOOSE e \in nonDigits : \A m \in nonDigits : e <= m
        e == IF s <= Len(t) /\ t[s] = 48 THEN s + 1 ELSE run
        n == decimal(SubSeq(t, s, e - 1))
    IN  IF run = s THEN parseFail(s)
        ELSE IF e <= Len(t) /\ t[e] \in {46, 69, 101} THEN parseFail(e)
        ELSE parseOk(JNum(IF neg THEN 0 - n ELSE n), e)

\* one of the words true, false, null at position i
parseLiteral(t, i, word, v) ==
    IF i + Len(word) - 1 <= Len(t) /\ SubSeq(t, i, i + Len(word) - 1) = word
    THEN parseOk(v, i + Len(word))
    ELSE parseFail(i)

RECURSIVE parseValue(_, _)
RECURSIVE parseMembers(_, _, _)
RECURSIVE parseElements(_, _, _)

parseValue(t, from) ==
    LET i == skipWs(t, from) IN
    IF i > Len(t) THEN parseFail(i)
    ELSE CASE t[i] = 123 ->
                LET j == skipWs(t, i + 1) IN
                IF j <= Len(t) /\ t[j] = 125 THEN parseOk(JObj(<<>>), j + 1)
                ELSE parseMembers(t, j, <<>>)
           [] t[i] = 91 ->
                LET j == skipWs(t, i + 1) IN
                IF j <= Len(t) /\ t[j] = 93 THEN parseOk(JArr(<<>>), j + 1)
                ELSE parseElements(t, j, <<>>)
           [] t[i] = 34 -> parseString(t, i + 1)
           [] t[i] = 45 \/ t[i] \in 48..57 -> parseNumber(t, i)
           [] t[i] = 116 -> parseLiteral(t, i, <<116, 114, 117, 101>>, JBool(TRUE))
           [] t[i] = 102 -> parseLiteral(t, i, <<102, 97, 108, 115, 101>>, JBool(FALSE))
           [] t[i] = 110 -> parseLiteral(t, i, <<110, 117, 108, 108>>, JNull)
           [] OTHER -> parseFail(i)

\* the members of an object from position i on, acc the ones read so far
parseMembers(t, i, acc) ==
    IF i > Len(t) \/ t[i] # 34 THEN parseFail(i)
    ELSE LET key == parseString(t, i + 1) IN
         IF ~key.ok THEN parseFail(i)
         ELSE LET c == skipWs(t, key.i) IN
              IF c > Len(t) \/ t[c] # 58 THEN parseFail(c)
              ELSE LET val == parseValue(t, c + 1) IN
                   IF ~val.ok THEN parseFail(c)
                   ELSE LET n == skipWs(t, val.i)
                            more == Append(acc, [k |-> key.v.v, v |-> val.v])
                        IN  IF n > Len(t) THEN parseFail(n)
                            ELSE IF t[n] = 44 THEN parseMembers(t, skipWs(t, n + 1), more)
                            ELSE IF t[n] = 125 THEN parseOk(JObj(more), n + 1)
                            ELSE parseFail(n)

\* the elements of an array from position i on, acc the ones read so far
parseElements(t, i, acc) ==
    LET val == parseValue(t, i) IN
    IF ~val.ok THEN parseFail(i)
    ELSE LET n == skipWs(t, val.i)
             more == Append(acc, val.v)
         IN  IF n > Len(t) THEN parseFail(n)
             ELSE IF t[n] = 44 THEN parseElements(t, n + 1, more)
             ELSE IF t[n] = 93 THEN parseOk(JArr(more), n + 1)
             ELSE parseFail(n)

\* JSON.parse: one value, then nothing but white space; ~ok is a SyntaxError
JSONparse(t) ==
    LET r == parseValue(t, 1) IN
    IF r.ok /\ skipWs(t, r.i) > Len(t) THEN r ELSE parseFail(r.i)

\* o[key] for a parsed value o other than null: the last member of that
\* name of an object, undefined otherwise
get(o, key) ==
    LET hits == IF o.t = "obj" THEN {m \in DOMAIN o.v : o.v[m].k = key} ELSE {} IN
    IF hits = {} THEN Undefined
    ELSE o.v[CHOOSE m \in hits : \A h \in hits : h <= m].v

\* v === "s" for a text s
isString(v, s) == v.t = "str" /\ v.v = s

\* how often `for (let i = 0; i < v; i++)` runs (lines 32, 44) for v a number,
\* a boolean, null or undefined
iterations(v) ==
    CASE v.t = "num" -> (IF v.v > 0 THEN v.v ELSE 0)
      [] v.t = "bool" -> (IF v.v THEN 1 ELSE 0)
      [] OTHER -> 0

(***************************************************************************)
(* The outcome of lines 3-68: the values parsed, or the error thrown.      *)
(***************************************************************************)
NoResult ==
    [status |-> "none", error |-> "none", extra |-> 0, header |-> Undefined,
     frameData |-> <<>>, audioData |-> <<>>, triggers |-> Undefined]

SyntaxError == "SyntaxError"
TypeError == "TypeError"
BadMagic == "Error: Invalid AGIF file: Missing magic header"
Unsupported == "Error: Unsupported AGIF version or audio format"
ExtraBytes == "Error: File parsing error: Extra bytes at end"

\* throw e with a message that leaves the byte count out
thrownWithoutCount(e, n) == [NoResult EXCEPT !.status = "error", !.error = e]

\* throw e (n: the byte count of the message of lines 63-67)
thrown(e, n) == [NoResult EXCEPT !.status = "error", !.error = e, !.extra = n]

\* lines 32-40 and 44-50: n sections from offset off on, each a length and
\* that many bytes; ~ok is the RangeError of getUint32 or of the view
RECURSIVE readSections(_, _, _, _)
readSections(b, off, n, acc) ==
    IF n = 0 THEN [ok |-> TRUE, items |-> acc, off |-> off]
    ELSE IF ~inBounds(b, off, 4) THEN [ok |-> FALSE, items |-> acc, off |-> off]
    ELSE LET len == getUint32(b, off) IN
         IF ~inBounds(b, off + 4, len) THEN [ok |-> FALSE, items |-> acc, off |-> off]
         ELSE readSections(b, off + 4 + len, n - 1,
                           Append(acc, Uint8Array(b, off + 4, len)))

\* lines 52-68: the trigger section and the end-of-buffer check
decodeTriggers(b, off, header, frameData, audioData) ==
    IF ~inBounds(b, off, 4) THEN thrown(RangeError, 0)
    ELSE LET triggerLen == getUint32(b, off) IN
         IF ~inBounds(b, off + 4, triggerLen) THEN thrown(RangeError, 0)
         ELSE LET parsed == JSONparse(textDecoderDecode(Uint8Array(b, off + 4, triggerLen)))
                  end == off + 4 + triggerLen
              IN  IF ~parsed.ok THEN thrown(SyntaxError, 0)
                  ELSE IF end # Len(b) THEN thrown(ExtraBytes, Len(b) - end)
                  ELSE [NoResult EXCEPT !.status = "ok", !.header = header,
                                        !.frameData = frameData, !.audioData = audioData,
                                        !.triggers = parsed.v]

\* lines 30-50: the frame sections, then the audio sections
decodeSections(b, off, header) ==
    LET fr == readSections(b, off, iterations(get(header, K_numFrames)), <<>>) IN
    IF ~fr.ok THEN thrown(RangeError, 0)
    ELSE LET au == readSections(b, fr.off, iterations(get(header, K_numAudioClips)), <<>>) IN
         IF ~au.ok THEN thrown(RangeError, 0)
         ELSE decodeTriggers(b, au.off, header,
                             [k \in DOMAIN fr.items |->
                                 DataUrlPrefix \o textDecoderDecode(fr.items[k])],
                             au.items)

\* lines 14-28: the header section and its validation
decodeHeader(b, off) ==
    IF ~inBounds(b, off, 4) THEN thrown(RangeError, 0)
    ELSE LET headerLen == getUint32(b, off) IN
         IF ~inBounds(b, off + 4, headerLen) THEN thrown(RangeError, 0)
         ELSE LET header == JSONparse(textDecoderDecode(Uint8Array(b, off + 4, headerLen))) IN
              IF ~header.ok THEN thrown(SyntaxError, 0)
              ELSE IF header.v.t = "null" THEN thrown(TypeError, 0)
              ELSE IF \/ ~isString(get(header.v, K_version), V_1_0)
                      \/ ~isString(get(header.v, K_audioFormat), V_wav)
                   THEN thrown(Unsupported, 0)
              ELSE decodeSections(b, off + 4 + headerLen, header.v)

\* lines 3-68
AGIFDecoder_decode(b) ==
    IF ~inBounds(b, 0, 4) THEN thrown(RangeError, 0)
    ELSE IF textDecoderDecode(Uint8Array(b, 0, 4)) # AGIF THEN thrown(BadMagic, 0)
    ELSE decodeHeader(b, 4)

(***************************************************************************)
(* createAudiGIF, lines 342-410: how the bytes of a container are laid     *)
(* out, from the header text, the frame payloads, the audio payloads and   *)
(* the trigger text.                                                       *)
(***************************************************************************)
\* lines 350-351: DataView.setUint32(0, n, true)
setUint32(n) ==
    <<n % 256, (n \div 256) % 256, (n \div 65536) % 256, (n \div 16777216) % 256>>

\* a length prefix and the bytes it counts (lines 370-374, 388-392)
lengthPrefixed(bytes) == setUint32(Len(bytes)) \o bytes

RECURSIVE flatParts(_)
flatParts(payloads) ==
    IF payloads = <<>> THEN <<>>
    ELSE lengthPrefixed(Head(payloads)) \o flatParts(Tail(payloads))

\* lines 402-410: blobParts
blobParts(headerBytes, frameBytesArr, audioData, triggerBytes) ==
    AGIF \o lengthPrefixed(headerBytes) \o flatParts(frameBytesArr)
         \o flatParts(audioData) \o lengthPrefixed(triggerBytes)

\* the property names of the header (lines 331-340) and of the trigger map
\* (lines 279, 395): "magic"
K_magic ==
    <<109, 97, 103, 105, 99>>
\* "width"
K_width ==
    <<119, 105, 100, 116, 104>>
\* "height"
K_height ==
    <<104, 101, 105, 103, 104, 116>>
\* "frameRate"
K_frameRate ==
    <<102, 114, 97, 109, 101, 82, 97, 116, 101>>
\* "frame_triggers"
K_frame_triggers ==
    <<102, 114, 97, 109, 101, 95, 116, 114, 105, 103, 103, 101, 114, 115>>
\* "loop"
K_loop ==
    <<108, 111, 111, 112>>
\* "frame"
K_frame ==
    <<102, 114, 97, 109, 101>>
\* "audio"
K_audio ==
    <<97, 117, 100, 105, 111>>

(***************************************************************************)
(* new TextEncoder().encode(text): UTF-8.                                  *)
(***************************************************************************)
\* the bytes of one code point
utf8Bytes(c) ==
    IF c < 128 THEN <<c>>
    ELSE IF c < 2048 THEN <<192 + (c \div 64), 128 + (c % 64)>>
    ELSE IF c < 65536
         THEN <<224 + (c \div 4096), 128 + ((c \div 64) % 64), 128 + (c % 64)>>
    ELSE <<240 + (c \div 262144), 128 + ((c \div 4096) % 64),
           128 + ((c \div 64) % 64), 128 + (c % 64)>>

\* the bytes of the text from position i on: the code points below 128 up
\* to the next one above stand for themselves, then one is encoded
RECURSIVE textEncoderEncodeFrom(_, _)
textEncoderEncodeFrom(t, i) ==
    LET high == {k \in i..Len(t) : t[k] > 127} IN
    IF high = {} THEN SubSeq(t, i, Len(t))
    ELSE LET j == CHOOSE k \in high : \A m \in high : k <= m IN
         SubSeq(t, i, j - 1) \o utf8Bytes(t[j]) \o textEncoderEncodeFrom(t, j + 1)

textEncoderEncode(t) == textEncoderEncodeFrom(t, 1)

(***************************************************************************)
(* JSON.stringify(value) (lines 348, 396) for the values createAudiGIF     *)
(* hands to it: objects, arrays, integers, booleans, and strings without   *)
(* a character that is escaped.                                            *)
(***************************************************************************)
RECURSIVE digits(_)
digits(n) == IF n < 10 THEN <<48 + n>> ELSE digits(n \div 10) \o <<48 + (n % 10)>>

RECURSIVE JSONstringify(_)
RECURSIVE stringifyMembers(_)
RECURSIVE stringifyElements(_)

JSONstringify(v) ==
    CASE v.t = "str" -> <<34>> \o v.v \o <<34>>
      [] v.t = "num" -> (IF v.v < 0 THEN <<45>> \o digits(0 - v.v) ELSE digits(v.v))
      [] v.t = "bool" -> (IF v.v THEN <<116, 114, 117, 101>> ELSE <<102, 97, 108, 115, 101>>)
      [] v.t = "null" -> <<110, 117, 108, 108>>
      [] v.t = "arr" -> <<91>> \o stringifyElements(v.v) \o <<93>>
      [] v.t = "obj" -> <<123>> \o stringifyMembers(v.v) \o <<125>>

\* "k":v of the members ms, separated by commas
stringifyMembers(ms) ==
    IF ms = <<>> THEN <<>>
    ELSE <<34>> \o Head(ms).k \o <<34, 58>> \o JSONstringify(Head(ms).v)
           \o (IF Len(ms) > 1 THEN <<44>> \o stringifyMembers(Tail(ms)) ELSE <<>>)

\* the elements es, separated by commas
stringifyElements(es) ==
    IF es = <<>> THEN <<>>
    ELSE JSONstringify(Head(es))
           \o (IF Len(es) > 1 THEN <<44>> \o stringifyElements(Tail(es)) ELSE <<>>)

\* lines 331-340: the header object of a container of nf images and nc clips
headerObject(rate, nf, nc) ==
    JObj(<< [k |-> K_magic, v |-> JStr(AGIF)],
            [k |-> K_version, v |-> JStr(V_1_0)],
            [k |-> K_width, v |-> JNum(300)],
            [k |-> K_height, v |-> JNum(300)],
            [k |-> K_frameRate, v |-> JNum(rate)],
            [k |-> K_audioFormat, v |-> JStr(V_wav)],
            [k |-> K_numFrames, v |-> JNum(nf)],
            [k |-> K_numAudioClips, v |-> JNum(nc)] >>)

\* lines 279, 305: { frame: index, audio: parseInt(audioIndex) }
triggerObject(f, a) ==
    JObj(<< [k |-> K_frame, v |-> JNum(f)], [k |-> K_audio, v |-> JNum(a)] >>)

\* line 395: { frame_triggers: triggers, loop: true }
triggerMapObject(trigs) ==
    JObj(<< [k |-> K_frame_triggers, v |-> JArr(trigs)],
            [k |-> K_loop, v |-> JBool(TRUE)] >>)

(***************************************************************************)
(* AGIFDecoder.decode, lines 91-97: what decode returns for the parse r of *)
(* a buffer, frames and clips as the payloads the host decodes.            *)
(***************************************************************************)
\* v || [] takes [] for these values of v
falsy(v) ==
    \/ v.t \in {"undefined", "null"}
    \/ v.t = "bool" /\ ~v.v
    \/ v.t = "num" /\ v.v = 0
    \/ v.t = "str" /\ v.v = <<>>

returnedObject(r) ==
    [header |-> r.header,
     frames |-> r.frameData,
     audioBuffers |-> r.audioData,
     triggers |-> LET ft == get(r.triggers, K_frame_triggers) IN
                  IF falsy(ft) THEN JArr(<<>>) ELSE ft,
     loop |-> LET lp == get(r.triggers, K_loop) IN ~(lp.t = "bool" /\ ~lp.v)]

(***************************************************************************)
(* audioBufferToWav (lines 416-452) and writeString (lines 454-458).       *)
(* A sample is a rational number, held as its numerator over SampleUnit:   *)
(* SampleUnit stands for 1.0.                                              *)
(***************************************************************************)
SampleUnit == 2

\* new ArrayBuffer(n): n zero bytes
ArrayBuffer(n) == [i \in 1..n |-> 0]

\* the bytes written into view from offset off on
put(view, off, bytes) ==
    [i \in DOMAIN view |->
        IF off < i /\ i <= off + Len(bytes) THEN bytes[i - off] ELSE view[i]]

\* writeString(view, offset, string), string as its char codes
writeString(view, off, string) == put(view, off, string)

\* view.setUint16(off, n, true)
setUint16(n) == <<n % 256, (n \div 256) % 256>>

\* the value is cut to its whole part, toward zero, and kept modulo 2^16
ToInt16(num, den) ==
    LET whole == IF num < 0 THEN 0 - ((0 - num) \div den) ELSE num \div den
    IN  whole % 65536

\* line 446 without the test of the sign: every sample times 0x7fff
scaledSymmetric(sample) == ToInt16(sample * 32767, SampleUnit)

\* line 446: sample < 0 ? sample * 0x8000 : sample * 0x7fff, as setInt16
\* stores it
scaled(sample) ==
    IF sample < 0 THEN ToInt16(sample * 32768, SampleUnit)
    ELSE ToInt16(sample * 32767, SampleUnit)

\* lines 439-442: Math.max(-1, Math.min(1, s))
clamp(s) ==
    LET low == IF s < SampleUnit THEN s ELSE SampleUnit
    IN  IF low > 0 - SampleUnit THEN low ELSE 0 - SampleUnit

\* lines 437-450 from the k-th pass of the inner loop on: pass k is time
\* k \div numChannels, channel k % numChannels, offset 44 + 2k
RECURSIVE writeSamples(_, _, _)
writeSamples(view, b, k) ==
    IF k >= b.length * b.numberOfChannels THEN view
    ELSE LET i == k \div b.numberOfChannels
             channel == k % b.numberOfChannels
             sample == clamp(b.channelData[channel + 1][i + 1])
         IN  writeSamples(put(view, 44 + 2 * k, setUint16(scaled(sample))), b, k + 1)

audioBufferToWav(b) ==
    LET numChannels == b.numberOfChannels
        sampleRate == b.sampleRate
        length == b.length * numChannels * 2 + 44
        v0 == ArrayBuffer(length)
        v1 == writeString(v0, 0, <<82, 73, 70, 70>>)
        v2 == put(v1, 4, setUint32(36 + b.length * numChannels * 2))
        v3 == writeString(v2, 8, <<87, 65, 86, 69>>)
        v4 == writeString(v3, 12, <<102, 109, 116, 32>>)
        v5 == put(v4, 16, setUint32(16))
        v6 == put(v5, 20, setUint16(1))
        v7 == put(v6, 22, setUint16(numChannels))
        v8 == put(v7, 24, setUint32(sampleRate))
        v9 == put(v8, 28, setUint32(sampleRate * numChannels * 2))
        v10 == put(v9, 32, setUint16(numChannels * 2))
        v11 == put(v10, 34, setUint16(16))
        v12 == writeString(v11, 36, <<100, 97, 116, 97>>)
        v13 == put(v12, 40, setUint32(b.length * numChannels * 2))
    IN  writeSamples(v13, b, 0)

(***************************************************************************)
(* The AudioBuffers handed to audioBufferToWav: mono or stereo, up to      *)
(* MaxLength samples per channel, every sample between -1.5 and 1.5 in     *)
(* steps of a half.                                                        *)
(***************************************************************************)
MaxLength == 2

ChannelCounts == {1, 2}

SampleRates == {44100}

Samples == (0 - SampleUnit - 1)..(SampleUnit + 1)

\* the AudioBuffer of c channels at rate r with the channel data d, l samples
\* per channel
AudioBuffer(c, r, l, d) ==
    [numberOfChannels |-> c, sampleRate |-> r, length |-> l, channelData |-> d]

NoBuffer == [numberOfChannels |-> 0, sampleRate |-> 0, length |-> 0, channelData |-> <<>>]

\* line 387: const wavArrayBuffer = audioBufferToWav(audioBuffer)
encodeWav ==
    /\ wavArrayBuffer = <<>>
    /\ audioBuffer # NoBuffer
    /\ wavArrayBuffer' = audioBufferToWav(audioBuffer)
    /\ UNCHANGED <<decoded, isPlaying, currentFrame, animationId, frameDuration,
                   pending, nextTimerId, nextRafId, loads, ticks, pausedFrame,
                   decodeVars, audioBuffer, authorVars>>

(***************************************************************************)
(* The buffers handed to decode: every short byte sequence over            *)
(* ByteValues; containers as createAudiGIF lays them out, and containers   *)
(* that differ from those in the header text; each of them under the magic *)
(* bytes of Magics, cut at every length, and with bytes appended.          *)
(***************************************************************************)
\* JSON.stringify of the header of lines 331-340 for one image, one clip, 10 fps:
\* {"magic":"AGIF","version":"1.0","width":300,"height":300,"frameRate":10,"audioFormat":"wav","numFrames":1,"numAudioClips":1}
HeaderOneOne ==
    <<123, 34, 109, 97, 103, 105, 99, 34, 58, 34, 65, 71, 73, 70, 34, 44,
    34, 118, 101, 114, 115, 105, 111, 110, 34, 58, 34, 49, 46, 48, 34, 44,
    34, 119, 105, 100, 116, 104, 34, 58, 51, 48, 48, 44, 34, 104, 101, 105,
    103, 104, 116, 34, 58, 51, 48, 48, 44, 34, 102, 114, 97, 109, 101, 82,
    97, 116, 101, 34, 58, 49, 48, 44, 34, 97, 117, 100, 105, 111, 70, 111,
    114, 109, 97, 116, 34, 58, 34, 119, 97, 118, 34, 44, 34, 110, 117, 109,
    70, 114, 97, 109, 101, 115, 34, 58, 49, 44, 34, 110, 117, 109, 65, 117,
    100, 105, 111, 67, 108, 105, 112, 115, 34, 58, 49, 125>>
\* {"version":"1.0","audioFormat":"wav","numFrames":0,"numAudioClips":0}
HeaderEmpty ==
    <<123, 34, 118, 101, 114, 115, 105, 111, 110, 34, 58, 34, 49, 46, 48,
    34, 44, 34, 97, 117, 100, 105, 111, 70, 111, 114, 109, 97, 116, 34, 58,
    34, 119, 97, 118, 34, 44, 34, 110, 117, 109, 70, 114, 97, 109, 101, 115,
    34, 58, 48, 44, 34, 110, 117, 109, 65, 117, 100, 105, 111, 67, 108, 105,
    112, 115, 34, 58, 48, 125>>
\* {"version":"2.0","audioFormat":"wav","numFrames":0,"numAudioClips":0}
HeaderV2 ==
    <<123, 34, 118, 101, 114, 115, 105, 111, 110, 34, 58, 34, 50, 46, 48,
    34, 44, 34, 97, 117, 100, 105, 111, 70, 111, 114, 109, 97, 116, 34, 58,
    34, 119, 97, 118, 34, 44, 34, 110, 117, 109, 70, 114, 97, 109, 101, 115,
    34, 58, 48, 44, 34, 110, 117, 109, 65, 117, 100, 105, 111, 67, 108, 105,
    112, 115, 34, 58, 48, 125>>
\* null
HeaderNull ==
    <<110, 117, 108, 108>>
\* {"version":  (not JSON)
HeaderCut ==
    <<123, 34, 118, 101, 114, 115, 105, 111, 110, 34, 58>>
\* JSON.stringify of the header of lines 331-340 for two images, two clips, 24 fps:
\* {"magic":"AGIF","version":"1.0","width":300,"height":300,"frameRate":24,"audioFormat":"wav","numFrames":2,"numAudioClips":2}
HeaderTwoTwo ==
    <<123, 34, 109, 97, 103, 105, 99, 34, 58, 34, 65, 71, 73, 70, 34, 44,
    34, 118, 101, 114, 115, 105, 111, 110, 34, 58, 34, 49, 46, 48, 34, 44,
    34, 119, 105, 100, 116, 104, 34, 58, 51, 48, 48, 44, 34, 104, 101, 105,
    103, 104, 116, 34, 58, 51, 48, 48, 44, 34, 102, 114, 97, 109, 101, 82,
    97, 116, 101, 34, 58, 50, 52, 44, 34, 97, 117, 100, 105, 111, 70, 111,
    114, 109, 97, 116, 34, 58, 34, 119, 97, 118, 34, 44, 34, 110, 117, 109,
    70, 114, 97, 109, 101, 115, 34, 58, 50, 44, 34, 110, 117, 109, 65, 117,
    100, 105, 111, 67, 108, 105, 112, 115, 34, 58, 50, 125>>
\* a header with the supported version and format and numbers out of range:
\* {"version":"1.0","audioFormat":"wav","frameRate":0,"width":0,"height":-1,"numFrames":-1,"numAudioClips":0}
HeaderBadNumbers ==
    <<123, 34, 118, 101, 114, 115, 105, 111, 110, 34, 58, 34, 49, 46, 48,
    34, 44, 34, 97, 117, 100, 105, 111, 70, 111, 114, 109, 97, 116, 34, 58,
    34, 119, 97, 118, 34, 44, 34, 102, 114, 97, 109, 101, 82, 97, 116, 101,
    34, 58, 48, 44, 34, 119, 105, 100, 116, 104, 34, 58, 48, 44, 34, 104,
    101, 105, 103, 104, 116, 34, 58, 45, 49, 44, 34, 110, 117, 109, 70, 114,
    97, 109, 101, 115, 34, 58, 45, 49, 44, 34, 110, 117, 109, 65, 117, 100,
    105, 111, 67, 108, 105, 112, 115, 34, 58, 48, 125>>
\* JSON.stringify of the trigger map of line 395 for one trigger:
\* {"frame_triggers":[{"frame":0,"audio":0}],"loop":true}
TriggersOne ==
    <<123, 34, 102, 114, 97, 109, 101, 95, 116, 114, 105, 103, 103, 101,
    114, 115, 34, 58, 91, 123, 34, 102, 114, 97, 109, 101, 34, 58, 48, 44,
    34, 97, 117, 100, 105, 111, 34, 58, 48, 125, 93, 44, 34, 108, 111, 111,
    112, 34, 58, 116, 114, 117, 101, 125>>
\* {"frame_triggers":[],"loop":false}
TriggersNone ==
    <<123, 34, 102, 114, 97, 109, 101, 95, 116, 114, 105, 103, 103, 101,
    114, 115, 34, 58, 91, 93, 44, 34, 108, 111, 111, 112, 34, 58, 102, 97,
    108, 115, 101, 125>>
\* a frame payload: base64 text
FramePayload ==
    <<105, 86, 66, 79>>
\* an audio payload: raw bytes
AudioPayload ==
    <<82, 73, 255, 0>>

ByteValues == {0, 65, 70, 71, 73, 255}

\* "AGIF", "agif", "AGIG", a byte order mark and "A", "GIFA"
Magics ==
    {AGIF, <<97, 103, 105, 102>>, <<65, 71, 73, 71>>, <<239, 187, 191, 65>>,
     <<71, 73, 70, 65>>}

\* containers laid out as the format asks: a supported header, as many
\* frame and audio sections as it announces, a trigger map
ValidContainers ==
    {blobParts(HeaderOneOne, <<FramePayload>>, <<AudioPayload>>, TriggersOne),
     blobParts(HeaderEmpty, <<>>, <<>>, TriggersNone),
     blobParts(HeaderTwoTwo, <<FramePayload, <<>>>>, <<AudioPayload, <<1>>>>, TriggersOne)}

Containers ==
    ValidContainers \cup
    {blobParts(HeaderV2, <<>>, <<>>, TriggersNone),
     blobParts(HeaderNull, <<>>, <<>>, TriggersNone),
     blobParts(HeaderCut, <<>>, <<>>, TriggersNone),
     blobParts(HeaderBadNumbers, <<>>, <<>>, TriggersNone),
     blobParts(HeaderEmpty, <<>>, <<>>, HeaderCut)}

\* the byte sequences over ByteValues of length lo..hi
bytesOfLength(lo, hi) == UNION {[1..k -> ByteValues] : k \in lo..hi}

withMagic(m, c) == m \o SubSeq(c, Len(AGIF) + 1, Len(c))

truncations(c) == {SubSeq(c, 1, k) : k \in 0..Len(c)}

Buffers ==
    bytesOfLength(0, MaxGarbage)
      \cup UNION {truncations(withMagic(m, c)) : m \in Magics, c \in Containers}
      \cup {c \o e : c \in Containers, e \in bytesOfLength(1, MaxExtra)}

\* the file handed to the decoder is decoded (lines 3-68)
decode ==
    /\ result.status = "none"
    /\ result' = AGIFDecoder_decode(buffer)
    /\ UNCHANGED <<buffer, decoded, isPlaying, currentFrame, animationId, frameDuration,
                   pending, nextTimerId, nextRafId, loads, ticks, pausedFrame, wavVars,
                   authorVars>>

(***************************************************************************)
(* The authoring page, lines 212-413: the globals, the upload handlers,    *)
(* the two buttons and createAudiGIF.                                      *)
(*                                                                         *)
(* An image file is the base64 text canvas.toDataURL gives for it; an      *)
(* audio file is the AudioBuffer decodeAudioData gives for it, or one the  *)
(* host cannot decode.  The frame rate select is left alone: frameRate     *)
(* keeps the value of line 216.                                            *)
(***************************************************************************)
MaxEncodes == 2

\* a second image: "R0lG"
OtherFramePayload == <<82, 48, 108, 71>>

Tone == [decodes |-> TRUE, audioBuffer |-> AudioBuffer(1, 44100, 1, <<<<1>>>>)]
Hiss == [decodes |-> TRUE, audioBuffer |-> AudioBuffer(2, 44100, 1, <<<<-3>>, <<0>>>>)]
Broken == [decodes |-> FALSE, audioBuffer |-> NoBuffer]

\* e.target.files of a change of imageInput (line 236)
ImageUploads == {<<>>, <<FramePayload, OtherFramePayload>>}

\* e.target.files of a change of audioInput (line 242)
AudioUploads == {<<>>, <<Tone>>, <<Broken>>}

NoContainer ==
    [blob |-> <<>>, frameRate |-> 0, numFrames |-> 0, numAudioClips |-> 0,
     frameData |-> <<>>, audioData |-> <<>>, written |-> <<>>, collected |-> <<>>]

\* lines 235-238: imageInput change; updateFrameList (lines 247-265) builds
\* one select per image anew
imageInputChange ==
    /\ \E files \in ImageUploads : images' = files
    /\ UNCHANGED <<decoded, isPlaying, currentFrame, animationId, frameDuration,
                   pending, nextTimerId, nextRafId, loads, ticks, pausedFrame,
                   decodeVars, wavVars, audioFiles, triggers, frameRate, encodes, produced>>

\* lines 241-244: audioInput change; updateFrameList builds the selects
\* anew with one option per audio file
audioInputChange ==
    /\ \E files \in AudioUploads : audioFiles' = files
    /\ UNCHANGED <<decoded, isPlaying, currentFrame, animationId, frameDuration,
                   pending, nextTimerId, nextRafId, loads, ticks, pausedFrame,
                   decodeVars, wavVars, images, triggers, frameRate, encodes, produced>>

\* the values the selects of the frame list can have when a button is
\* clicked: per image "" (here -1) or the index of an audio file (lines
\* 255-260)
Selections == [1..Len(images) -> -1..(Len(audioFiles) - 1)]

\* lines 275-282: one trigger per image whose select has a value, in the
\* order of the images
RECURSIVE collect(_, _)
collect(sel, index) ==
    IF index >= Len(sel) THEN <<>>
    ELSE (IF sel[index + 1] = -1 THEN <<>>
          ELSE <<triggerObject(index, sel[index + 1])>>) \o collect(sel, index + 1)

\* lines 329-366: createAudiGIF up to its first await: the header is built
\* and encoded, and images.map has taken the images
createAudiGIF(collected) ==
    [phase |-> "frames",
     frameRate |-> frameRate, numFrames |-> Len(images), numAudioClips |-> Len(audioFiles),
     images |-> images, frameData |-> <<>>, audioFiles |-> <<>>,
     collected |-> collected]

\* lines 268-285 and 294-311: a click with at least one image collects the
\* triggers and calls createAudiGIF
click ==
    /\ Len(images) # 0
    /\ Len(encodes) < MaxEncodes
    /\ \E sel \in Selections :
          /\ triggers' = collect(sel, 0)
          /\ encodes' = Append(encodes, createAudiGIF(collect(sel, 0)))
    /\ UNCHANGED <<decoded, isPlaying, currentFrame, animationId, frameDuration,
                   pending, nextTimerId, nextRafId, loads, ticks, pausedFrame,
                   decodeVars, wavVars, images, audioFiles, frameRate, produced>>

processButtonClick == click

previewButtonClick == click

\* the sequence s without its k-th element
without(s, k) == SubSeq(s, 1, k - 1) \o SubSeq(s, k + 1, Len(s))

\* lines 352-386: every image has loaded; the frames are encoded and
\* audioFiles.map takes the audio files
framesEncoded ==
    /\ \E k \in DOMAIN encodes :
          /\ encodes[k].phase = "frames"
          /\ encodes' = [encodes EXCEPT ![k].phase = "audio",
                                        ![k].frameData = encodes[k].images,
                                        ![k].audioFiles = audioFiles]
    /\ UNCHANGED <<decoded, isPlaying, currentFrame, animationId, frameDuration,
                   pending, nextTimerId, nextRafId, loads, ticks, pausedFrame,
                   decodeVars, wavVars, images, audioFiles, triggers, frameRate, produced>>

\* lines 380-388: the WAV bytes of the audio files taken
RECURSIVE audioDataOf(_)
audioDataOf(files) ==
    IF files = <<>> THEN <<>>
    ELSE <<audioBufferToWav(Head(files).audioBuffer)>> \o audioDataOf(Tail(files))

\* lines 331-350, 368-412 for the call e: the blob, with the header of the
\* call, the frames and clips it encoded and the triggers trigs
blobOf(e, audioData, trigs) ==
    blobParts(textEncoderEncode(JSONstringify(
                  headerObject(e.frameRate, e.numFrames, e.numAudioClips))),
              [k \in DOMAIN e.frameData |-> textEncoderEncode(e.frameData[k])],
              audioData,
              textEncoderEncode(JSONstringify(triggerMapObject(trigs))))

\* lines 380-413: every audio file is decoded, or one is not and
\* createAudiGIF throws (caught at lines 288, 322); the trigger map is made
\* of the global triggers and the blob is returned
audioEncoded ==
    /\ \E k \in DOMAIN encodes :
          /\ encodes[k].phase = "audio"
          /\ encodes' = without(encodes, k)
          /\ LET e == encodes[k] IN
             IF \E j \in DOMAIN e.audioFiles : ~e.audioFiles[j].decodes
             THEN produced' = produced
             ELSE LET audioData == audioDataOf(e.audioFiles) IN
                  produced' = [blob |-> blobOf(e, audioData, triggers),
                               frameRate |-> e.frameRate,
                               numFrames |-> e.numFrames,
                               numAudioClips |-> e.numAudioClips,
                               frameData |-> e.frameData,
                               audioData |-> audioData,
                               written |-> triggers,
                               collected |-> e.collected]
    /\ UNCHANGED <<decoded, isPlaying, currentFrame, animationId, frameDuration,
                   pending, nextTimerId, nextRafId, loads, ticks, pausedFrame,
                   decodeVars, wavVars, images, audioFiles, triggers, frameRate>>

(***************************************************************************)
(* AGIFPlayer.constructor, lines 102-109, on a page that has not yet used  *)
(* a timer or an animation frame.                                          *)
(***************************************************************************)
InitPlayer ==
    /\ decoded = 0
    /\ isPlaying = FALSE
    /\ currentFrame = 0
    /\ animationId = 0
    /\ frameDuration = 0
    /\ pending = {}
    /\ nextTimerId = 1
    /\ nextRafId = 1
    /\ loads = <<>>
    /\ ticks = <<>>
    /\ pausedFrame = -1

InitDecode ==
    /\ buffer = <<>>
    /\ result = NoResult

InitWav ==
    /\ audioBuffer = NoBuffer
    /\ wavArrayBuffer = <<>>

\* lines 212-216
InitAuthor ==
    /\ images = <<>>
    /\ audioFiles = <<>>
    /\ triggers = <<>>
    /\ frameRate = 10
    /\ encodes = <<>>
    /\ produced = NoContainer

Init ==
    /\ InitPlayer
    /\ InitDecode
    /\ InitWav
    /\ InitAuthor

Next ==
    \/ loadAndPlay
    \/ bufferReady
    \/ frameLoaded
    \/ audioDecoded
    \/ play
    \/ pause
    \/ timeoutFires
    \/ rafFires

Spec == Init /\ [][Next]_vars

(***************************************************************************)
(* The decoder on its own: one buffer, decoded once.                       *)
(***************************************************************************)
DecodeInit ==
    /\ InitPlayer
    /\ InitWav
    /\ InitAuthor
    /\ buffer \in Buffers
    /\ result = NoResult

DecodeNext == decode

DecodeSpec == DecodeInit /\ [][DecodeNext]_vars

(***************************************************************************)
(* audioBufferToWav on its own: one AudioBuffer, converted once.           *)
(***************************************************************************)
WavInit ==
    /\ InitPlayer
    /\ InitDecode
    /\ InitAuthor
    /\ \E c \in ChannelCounts, r \in SampleRates, l \in 0..MaxLength :
          \E d \in [1..c -> [1..l -> Samples]] : audioBuffer = AudioBuffer(c, r, l, d)
    /\ wavArrayBuffer = <<>>

WavNext == encodeWav

WavSpec == WavInit /\ [][WavNext]_vars

(***************************************************************************)
(* The authoring page on its own.                                          *)
(***************************************************************************)
AuthorInit == Init

AuthorNext ==
    \/ imageInputChange
    \/ audioInputChange
    \/ processButtonClick
    \/ previewButtonClick
    \/ framesEncoded
    \/ audioEncoded

AuthorSpec == AuthorInit /\ [][AuthorNext]_vars

(***************************************************************************)
(* Properties.                                                             *)
(***************************************************************************)
Last(s) == s[Len(s)]

\* the entries of the history that are completed ticks
TickAt(i) == i \in DOMAIN ticks /\ ticks[i].kind = "tick"

\* this step ran animate() to its end (every tick takes a fresh timer handle,
\* so a new entry changes the history)
NewTick == ticks' # ticks /\ Last(ticks').kind = "tick"

\* the triggers of container d bound to frame f whose clip was decoded
LiveTriggers(d, f) ==
    {k \in DOMAIN d.triggers :
        d.triggers[k].frame = f /\ d.triggers[k].audio \in 0..(d.numAudioClips - 1)}

\* entries i .. i+n-1 of the history are n successive ticks of one container
\* of n frames
IsLap(i) ==
    LET n == Library[ticks[i].file].numFrames IN
    /\ i + n - 1 <= Len(ticks)
    /\ \A k \in i..(i + n - 1) : TickAt(k) /\ ticks[k].file = ticks[i].file

\* C1: a tick callback that was pending when pause() was called never runs a
\* tick body afterwards (renders no frame, starts no audio, does not advance
\* currentFrame, schedules nothing), also when play() is called again before
\* the callback is due.
C1_NoStaleTick ==
    \A i \in DOMAIN ticks : ~(ticks[i].kind = "tick" /\ ticks[i].stale)

\* C2: in every reachable state at most one tick of the player is pending.
C2_AtMostOnePending == Cardinality(pending) <= 1

C4_PauseKeepsFrame ==
    [][ /\ pause => (currentFrame' = currentFrame /\ ~isPlaying')
        /\ pausedFrame # -1 => (~isPlaying /\ currentFrame = pausedFrame)
        /\ (pausedFrame # -1 /\ NewTick) =>
              (Last(ticks').frame = pausedFrame /\ Last(ticks').via # "timer") ]_vars

\* a player paused at frame 2 was resumed and rendered frame 2
C4_Witness ==
    /\ Len(ticks) >= 2
    /\ Last(ticks).kind = "tick"
    /\ Last(ticks).via = "play"
    /\ Last(ticks).frame = 2
    /\ ticks[Len(ticks) - 1].frame = 1

C6_TriggerDispatch ==
    [](\A i \in DOMAIN ticks : TickAt(i) =>
        LET d == Library[ticks[i].file]
            live == LiveTriggers(d, ticks[i].frame)
        IN  /\ Len(ticks[i].started) = Cardinality(live)
            /\ \A c \in 0..(d.numAudioClips - 1) :
                  Cardinality({j \in DOMAIN ticks[i].started : ticks[i].started[j] = c})
                    = Cardinality({k \in live : d.triggers[k].audio = c})
            /\ \A j \in DOMAIN ticks[i].started :
                  ticks[i].started[j] \in 0..(d.numAudioClips - 1)
            /\ IsLap(i) =>
                  \A t \in DOMAIN d.triggers :
                      d.triggers[t].frame \in 0..(d.numFrames - 1) =>
                          Cardinality({k \in i..(i + d.numFrames - 1) :
                                          ticks[k].frame = d.triggers[t].frame}) = 1)

\* a lap of the 3-frame container: frame 1 started clips 0, 1, 0 and frame 2,
\* whose only trigger has no decoded clip, started nothing and went on
C6_Witness ==
    /\ Len(ticks) = 3
    /\ IsLap(1)
    /\ ticks[2].frame = 1
    /\ ticks[2].started = <<0, 1, 0>>
    /\ ticks[3].frame = 2
    /\ ticks[3].started = <<>>
    /\ ticks[3].next = 0

\* the concrete scenario of C7: with only the container of numFrames=2,
\* numAudioClips=1, frameRate=10 and the trigger {frame:0, audio:0} loaded, the
\* first two executions of animate() are ticks of frame 0, which starts the
\* clip, and of frame 1, which starts nothing, each with a delay of 100 ms
C7_Scenario ==
    (/\ Len(loads) = 1
     /\ Library[loads[1].file].numFrames = 2
     /\ Library[loads[1].file].numAudioClips = 1
     /\ Library[loads[1].file].frameRate = 10
     /\ Library[loads[1].file].triggers = <<Trig(0, 0)>>
     /\ Len(ticks) < MaxLog) =>
        /\ Len(ticks) >= 1 =>
              ticks[1] = [ticks[1] EXCEPT !.kind = "tick", !.frame = 0,
                                          !.started = <<0>>, !.delay = 100]
        /\ Len(ticks) >= 2 =>
              ticks[2] = [ticks[2] EXCEPT !.kind = "tick", !.frame = 1,
                                          !.started = <<>>, !.delay = 100]

\* C7: a tick renders the current frame, dispatches that frame's triggers,
\* advances currentFrame and schedules the next tick 1000 / frameRate ms
\* later; for numFrames=2, numAudioClips=1, frameRate=10 and the single
\* trigger {frame:0, audio:0}, loading then two ticks render frame 0 then
\* frame 1, start the clip once, in the frame-0 tick, with delays of 100 ms.
C7_TickSteps ==
    /\ [][ NewTick =>
             LET r == Last(ticks')
                 d == Library[decoded']
             IN  /\ r.file = decoded'
                 /\ r.frame = currentFrame
                 /\ \A j \in DOMAIN r.started :
                       \E k \in DOMAIN d.triggers :
                           d.triggers[k].frame = currentFrame /\ d.triggers[k].audio = r.started[j]
                 /\ currentFrame' = r.next
                 /\ r.delay * d.frameRate = 1000
                 /\ r.delay = frameDuration'
                 /\ animationId' = r.timer
                 /\ [kind |-> "timeout", id |-> r.timer, stale |-> FALSE] \in pending' \ pending ]_vars
    /\ []C7_Scenario

\* the scenario container was loaded and ticked twice
C7_Witness ==
    /\ Len(loads) = 1
    /\ Library[loads[1].file].triggers = <<Trig(0, 0)>>
    /\ loads[1].phase = "loaded"
    /\ Len(ticks) = 2
    /\ ticks[2].frame = 1
    /\ ticks[2].via = "timer"

\* C8: if a render or an audio start fails during a tick while the player is
\* playing, the timing loop is not halted: the next tick is still scheduled.
C8_LoopSurvivesFailure ==
    (isPlaying /\ ticks # <<>> /\ Last(ticks).kind = "throws") => pending # {}

\* every frame image and every audio clip of the call's container resolved
FullyDecoded(ld) ==
    /\ ld.frames = Library[ld.file].numFrames
    /\ ld.clips = Library[ld.file].numAudioClips

\* the calls whose decode() resolved
Resolved(l) ==
    /\ l \in DOMAIN loads
    /\ loads[l].phase = "loaded" \/ (loads[l].phase = "failed" /\ loads[l].error = "TypeError")

\* C9: a container is stored as decoded (and played) only after every frame
\* image and every audio clip of it decoded successfully, in whatever order
\* the decodes complete; if one decode fails the load fails with an error,
\* the container is never stored as decoded and no frame of it is rendered.
C9_AllOrNothing ==
    []( /\ \A l \in DOMAIN loads :
              /\ Resolved(l) => FullyDecoded(loads[l])
              /\ loads[l].phase = "audio" =>
                    loads[l].frames = Library[loads[l].file].numFrames
              /\ loads[l].error = "AssetDecodeError" =>
                    (loads[l].phase = "failed" /\ ~FullyDecoded(loads[l]))
        /\ decoded # 0 => \E l \in DOMAIN loads : Resolved(l) /\ loads[l].file = decoded
        /\ \A i \in DOMAIN ticks :
              \E l \in DOMAIN loads : Resolved(l) /\ loads[l].file = ticks[i].file )

\* one load failed on an audio clip after its frames and a clip had decoded
\* and left nothing behind; another load completed, is stored and played
C9_Witness ==
    /\ \E l \in DOMAIN loads :
          /\ loads[l].error = "AssetDecodeError"
          /\ loads[l].frames = Library[loads[l].file].numFrames
          /\ loads[l].clips = 1
          /\ decoded # loads[l].file
    /\ \E l \in DOMAIN loads : loads[l].phase = "loaded" /\ decoded = loads[l].file
    /\ ticks # <<>>

\* the first 4 bytes of b are the ASCII bytes "AGIF"
HasMagic(b) == Len(b) >= Len(AGIF) /\ SubSeq(b, 1, Len(AGIF)) = AGIF

\* C10: decoding a buffer whose first 4 bytes are not the ASCII bytes "AGIF"
\* fails with the bad-magic error, whatever the content and the length of the
\* rest of the buffer (buffers shorter than 4 bytes included), never with
\* another error or a success.
C10_BadMagic ==
    (result.status # "none" /\ ~HasMagic(buffer)) =>
        (result.status = "error" /\ result.error = BadMagic)

\* b is a valid container cut before its end
IsTruncation(b) ==
    \E c \in ValidContainers : Len(b) < Len(c) /\ b = SubSeq(c, 1, Len(b))

\* C11: truncating a valid container at any byte position before its end
\* (inside a length prefix, inside a payload, at a section boundary) makes
\* decode fail with the error of a read past the end of the buffer, the
\* RangeError of the view or of getUint32; decode never returns a result for
\* a truncated container.
C11_Truncated ==
    (result.status # "none" /\ IsTruncation(buffer)) =>
        (result.status = "error" /\ result.error = RangeError)

\* the one-frame container cut at the boundary between its header section and
\* its frame section was decoded
C11_Witness ==
    /\ result.status = "error"
    /\ IsTruncation(buffer)
    /\ buffer = AGIF \o lengthPrefixed(HeaderOneOne)

\* C12: appending N > 0 bytes to a valid container makes decode fail with the
\* trailing-data error, whose count is exactly N; decode succeeds only when
\* the cursor after the trigger section is the length of the buffer: no
\* buffer that decodes has a shorter beginning that decodes.
C12_Trailing ==
    result.status # "none" =>
        /\ \A c \in ValidContainers :
              (Len(buffer) > Len(c) /\ SubSeq(buffer, 1, Len(c)) = c) =>
                  /\ result.status = "error"
                  /\ result.error = ExtraBytes
                  /\ result.extra = Len(buffer) - Len(c)
        /\ result.status = "ok" =>
              \A k \in 0..(Len(buffer) - 1) :
                  AGIFDecoder_decode(SubSeq(buffer, 1, k)).status # "ok"

\* the two-frame container followed by two more bytes was decoded
C12_Witness ==
    /\ result.status = "error"
    /\ result.extra = 2
    /\ Len(buffer) = 2 + Len(blobParts(HeaderTwoTwo, <<FramePayload, <<>>>>,
                                        <<AudioPayload, <<1>>>>, TriggersOne))
    /\ \E c \in ValidContainers : SubSeq(buffer, 1, Len(buffer) - 2) = c

\* the first check of the validation sequence that buffer b violates: its
\* magic; a length prefix or a payload that reads past the end ("truncated");
\* a header text that is not JSON; the version and the audio format; a trigger
\* text that is not JSON; bytes left after the trigger section
FailedStep(b) ==
    IF ~HasMagic(b) THEN "magic"
    ELSE IF ~inBounds(b, 4, 4) \/ ~inBounds(b, 8, getUint32(b, 4)) THEN "truncated"
    ELSE LET headerLen == getUint32(b, 4)
             header == JSONparse(textDecoderDecode(Uint8Array(b, 8, headerLen)))
         IN  IF ~header.ok THEN "header"
             ELSE IF \/ ~isString(get(header.v, K_version), V_1_0)
                     \/ ~isString(get(header.v, K_audioFormat), V_wav)
                  THEN "version"
             ELSE LET fr == readSections(b, 8 + headerLen,
                                         iterations(get(header.v, K_numFrames)), <<>>)
                      au == readSections(b, fr.off,
                                         iterations(get(header.v, K_numAudioClips)), <<>>)
                  IN  IF ~fr.ok \/ ~au.ok \/ ~inBounds(b, au.off, 4) THEN "truncated"
                      ELSE IF ~inBounds(b, au.off + 4, getUint32(b, au.off)) THEN "truncated"
                      ELSE LET triggerLen == getUint32(b, au.off)
                               text == textDecoderDecode(Uint8Array(b, au.off + 4, triggerLen))
                           IN  IF ~JSONparse(text).ok THEN "triggers"
                               ELSE IF au.off + 4 + triggerLen # Len(b) THEN "eof"
                               ELSE "none"

\* C13: decode applies its checks in the order magic, header parse, version
\* and audio format, frame sections, audio sections, trigger section, end of
\* buffer and stops at the first one that fails: it succeeds only if none
\* fails, a failure returns no header, frames, audio or triggers, and two
\* buffers fail with the same error kind exactly if they fail at the same
\* step.
C13_OrderAndKinds ==
    result.status # "none" =>
        /\ result.status = "ok" <=> FailedStep(buffer) = "none"
        /\ result.status = "error" =>
              /\ result.header = Undefined /\ result.triggers = Undefined
              /\ result.frameData = <<>> /\ result.audioData = <<>>
              /\ \A c \in Containers :
                    LET r == AGIFDecoder_decode(c) IN
                    r.status = "error" =>
                        (r.error = result.error <=> FailedStep(c) = FailedStep(buffer))

\* the header member under key is a number not below lo
NumberAtLeast(h, key, lo) ==
    LET v == get(h, key) IN v.t = "num" /\ lo <= v.v

(***************************************************************************)
(* C16: a container that decode accepts has a header whose frameRate is an *)
(* integer in 1..60, whose width and height are positive integers and      *)
(* whose numFrames and numAudioClips are non-negative integers: decode     *)
(* rejects a buffer whose header violates one of these.                    *)
(***************************************************************************)
C16_HeaderValidated ==
    result.status = "ok" =>
        /\ NumberAtLeast(result.header, K_frameRate, 1)
        /\ get(result.header, K_frameRate).v <= 60
        /\ NumberAtLeast(result.header, K_width, 1)
        /\ NumberAtLeast(result.header, K_height, 1)
        /\ NumberAtLeast(result.header, K_numFrames, 0)
        /\ NumberAtLeast(result.header, K_numAudioClips, 0)

\* the signed 16-bit value stored little-endian at offset off of b
Int16At(b, off) ==
    LET u == b[off + 1] + 256 * b[off + 2] IN IF u >= 32768 THEN u - 65536 ELSE u

\* the sample of the AudioBuffer at time i on channel ch, as a numerator
SampleOf(i, ch) == audioBuffer.channelData[ch + 1][i + 1]

\* the number of bytes of sample data of the AudioBuffer
DataSize == audioBuffer.length * audioBuffer.numberOfChannels * 2

(***************************************************************************)
(* C17: audioBufferToWav on L samples per channel and C channels returns   *)
(* 44 + L*C*2 bytes, with 36 + L*C*2 in the RIFF size field and L*C*2 in   *)
(* the data size field; the sample of time i and channel ch is at offset   *)
(* 44 + 2*(i*C + ch), a sample of 1.0 or more as 32767, one of -1.0 or     *)
(* less as -32768, one of 0 as 0; an all-zero buffer gives zero bytes from *)
(* offset 44 on.                                                           *)
(***************************************************************************)
C17_WavLayout ==
    wavArrayBuffer # <<>> =>
        /\ Len(wavArrayBuffer) = 44 + DataSize
        /\ getUint32(wavArrayBuffer, 4) = 36 + DataSize
        /\ getUint32(wavArrayBuffer, 40) = DataSize
        /\ \A i \in 0..(audioBuffer.length - 1) :
           \A ch \in 0..(audioBuffer.numberOfChannels - 1) :
              LET v == Int16At(wavArrayBuffer, 44 + 2 * (i * audioBuffer.numberOfChannels + ch))
                  s == SampleOf(i, ch)
              IN  /\ s >= SampleUnit => v = 32767
                  /\ s <= 0 - SampleUnit => v = -32768
                  /\ s = 0 => v = 0
        /\ (\A i \in 0..(audioBuffer.length - 1) :
            \A ch \in 0..(audioBuffer.numberOfChannels - 1) : SampleOf(i, ch) = 0)
              => \A k \in 45..Len(wavArrayBuffer) : wavArrayBuffer[k] = 0

\* a stereo buffer of two samples per channel converted: 1.5 and -1.0 on
\* the left, 0 and -1.5 on the right
C17_Witness ==
    /\ wavArrayBuffer # <<>>
    /\ audioBuffer.numberOfChannels = 2
    /\ audioBuffer.length = 2
    /\ audioBuffer.channelData = <<<<SampleUnit + 1, 0 - SampleUnit>>, <<0, 0 - SampleUnit - 1>>>>
    /\ SubSeq(wavArrayBuffer, 45, 52) = <<255, 127, 0, 0, 0, 128, 0, 128>>

\* the header object the container p carries
HeaderOf(p) == JSONparse(textDecoderDecode(Uint8Array(p.blob, 8, getUint32(p.blob, 4)))).v

\* the header of p counts the frame and the audio sections written into p
CountsMatch(p) ==
    /\ get(HeaderOf(p), K_numFrames) = JNum(Len(p.frameData))
    /\ get(HeaderOf(p), K_numAudioClips) = JNum(Len(p.audioData))

\* the bytes of the trigger section for the trigger list trigs
TriggerSection(trigs) ==
    lengthPrefixed(textEncoderEncode(JSONstringify(triggerMapObject(trigs))))

\* the container p ends with the section s
EndsWith(p, s) ==
    /\ Len(s) <= Len(p.blob)
    /\ SubSeq(p.blob, Len(p.blob) - Len(s) + 1, Len(p.blob)) = s

\* what decode is to return for the container p if its trigger map was
\* meant to have the loop flag lp
Encoded(p, lp) ==
    [header |-> headerObject(p.frameRate, Len(p.frameData), Len(p.audioData)),
     frames |-> [k \in DOMAIN p.frameData |-> DataUrlPrefix \o p.frameData[k]],
     audioBuffers |-> p.audioData,
     triggers |-> JArr(p.written),
     loop |-> lp]

\* decode of the container p returns x
DecodesTo(p, x) ==
    LET r == AGIFDecoder_decode(p.blob) IN
    r.status = "ok" /\ returnedObject(r) = x

(***************************************************************************)
(* C14: for every header, frames, WAV clips and trigger map with matching  *)
(* counts, decoding the container encoded from them gives back the same    *)
(* header values, frame payloads, audio bytes and trigger list in the same *)
(* order, and the same loop flag, also for loop = false.                   *)
(***************************************************************************)
C14_RoundTrip ==
    (produced # NoContainer /\ CountsMatch(produced)) =>
        \A lp \in BOOLEAN : DecodesTo(produced, Encoded(produced, lp))

\* the same for the trigger maps with loop = true only
RoundTripLooping ==
    (produced # NoContainer /\ CountsMatch(produced)) =>
        DecodesTo(produced, Encoded(produced, TRUE))

\* a container of two frames, one clip and one trigger has been produced
RoundTripReached ==
    /\ produced # NoContainer /\ CountsMatch(produced)
    /\ Len(produced.frameData) = 2 /\ Len(produced.audioData) = 1
    /\ produced.written = <<triggerObject(1, 0)>>

(***************************************************************************)
(* C15: every container createAudiGIF produces has header.numFrames equal  *)
(* to the number of frame sections written, header.numAudioClips equal to  *)
(* the number of audio sections written, and as its trigger section the    *)
(* trigger list collected for that call, also when uploads and clicks are  *)
(* handled while the call is suspended on an await.                        *)
(***************************************************************************)
C15_CountsAndTriggers ==
    produced # NoContainer =>
        /\ CountsMatch(produced)
        /\ EndsWith(produced, TriggerSection(produced.collected))

\* the two halves of C15 apart
CountsAlwaysMatch == produced # NoContainer => CountsMatch(produced)

TriggersAlwaysCollected ==
    produced # NoContainer => EndsWith(produced, TriggerSection(produced.collected))

FramesAlwaysCounted ==
    produced # NoContainer =>
        get(HeaderOf(produced), K_numFrames) = JNum(Len(produced.frameData))

(***************************************************************************)
(* C18: whenever a container with at least one frame is loaded,            *)
(* 0 <= currentFrame < numFrames, after any sequence of loadAndPlay(),     *)
(* play(), pause() and ticks, also after a loadAndPlay() of a container    *)
(* with fewer frames than the one loaded before on the same player.        *)
(***************************************************************************)
C18_FrameInRange ==
    (decoded # 0 /\ Library[decoded].numFrames >= 1) =>
        (0 <= currentFrame /\ currentFrame < Library[decoded].numFrames)

(***************************************************************************)
(* C19: whenever isPlaying is true between callbacks a tick is pending for *)
(* the player, for every loaded container, one with numFrames = 0          *)
(* included, and after every tick outcome.                                 *)
(***************************************************************************)
C19_PlayingHasTick == isPlaying => pending # {}

\* frameDuration is 1000 / frameRate of the container held
DurationOfHeld == decoded # 0 => frameDuration = frameDurationOf(Library[decoded])

(***************************************************************************)
(* C20: once all of several loadAndPlay() calls on the player have         *)
(* completed successfully, the container held is that of the call issued   *)
(* last, in whatever order the decodes completed; and at every moment      *)
(* frameDuration is 1000 / frameRate of the container held.                *)
(***************************************************************************)
C20_LastCallWins ==
    /\ (Len(loads) >= 2 /\ \A l \in DOMAIN loads : loads[l].phase = "loaded") =>
          decoded = Last(loads).file
    /\ DurationOfHeld

====
